---- MODULE Spec2Model ----
(***************************************************************************)
(* Model of github.com/alesr/resterr: NewHandler builds a registry from    *)
(* sentinel errors to REST errors, Handle translates an error into a       *)
(* logged JSON response on a Writer.                                       *)
(*                                                                         *)
(* Byte slices are sequences of one-character strings, so encoding/json is *)
(* modelled by what it produces and can be decoded again.  Log texts are   *)
(* strings.  Go error values are records [kind, text, sub, re]: a leaf     *)
(* (errors.New), a wrap (fmt.Errorf with %w), a join (errors.Join) or a    *)
(* RESTErr value.                                                          *)
(***************************************************************************)
EXTENDS Integers, Sequences, FiniteSets, TLC

VARIABLES errMapIn, optValidation, h, todo, handler, newErr,
          pc, err, sink, log, rtodo, found, prev, other

vars == <<errMapIn, optValidation, h, todo, handler, newErr,
          pc, err, sink, log, rtodo, found, prev, other>>

(***************************************************************************)
(* Bounds of the model.                                                    *)
(***************************************************************************)
\* how many context layers (fmt.Errorf("...: %w", e)) an input error carries
MaxWrap == 1
\* how many entries the error table given to NewHandler holds
MaxEntries == 2

(***************************************************************************)
(* net/http constants used by the package.                                 *)
(***************************************************************************)
StatusInternalServerError == 500

Nil == <<>>

(***************************************************************************)
(* RESTErr (resterr.go).                                                   *)
(***************************************************************************)
RESTErr(code, msg) == [StatusCode |-> code, Message |-> msg, json |-> Nil]

\* var restErr RESTErr: the zero value
ZeroRESTErr == RESTErr(0, <<>>)

internalErr ==
    RESTErr(StatusInternalServerError,
            <<"s","o","m","e","t","h","i","n","g"," ","w","e","n","t"," ",
              "w","r","o","n","g">>)

(***************************************************************************)
(* encoding/json for RESTErr: the struct tags give the two keys, the       *)
(* unexported json field is never encoded.                                 *)
(***************************************************************************)
DigitChar == <<"0","1","2","3","4","5","6","7","8","9">>

RECURSIVE Itoa(_)
Itoa(n) ==
    IF n < 10 THEN <<DigitChar[n + 1]>>
    ELSE Itoa(n \div 10) \o <<DigitChar[(n % 10) + 1]>>

\* json string escaping of one character (Marshal escapes HTML characters)
EscapeChar(c) ==
    CASE c = "\"" -> <<"\\", "\"">>
      [] c = "\\" -> <<"\\", "\\">>
      [] c = "<"  -> <<"\\", "u", "0", "0", "3", "c">>
      [] OTHER    -> <<c>>

RECURSIVE EscapeString(_)
EscapeString(s) ==
    IF s = <<>> THEN <<>> ELSE EscapeChar(Head(s)) \o EscapeString(Tail(s))

KeyStatusCode == <<"{","\"","s","t","a","t","u","s","-","c","o","d","e","\"",":">>
KeyMessage    == <<",","\"","m","e","s","s","a","g","e","\"",":","\"">>
CloseObject   == <<"\"","}">>

\* faulty variant: the message is copied without escaping
MarshalCorrupt(e) ==
    KeyStatusCode \o Itoa(e.StatusCode) \o KeyMessage \o e.Message \o CloseObject
\* json.Marshal(e) for a RESTErr: never fails for an int and a string
Marshal(e) ==
    KeyStatusCode \o Itoa(e.StatusCode) \o KeyMessage
        \o EscapeString(e.Message) \o CloseObject

HasPrefixAt(b, i, p) ==
    /\ i + Len(p) - 1 <= Len(b)
    /\ \A j \in 1..Len(p) : b[i + j - 1] = p[j]

DigitValue(c) == CHOOSE d \in 0..9 : DigitChar[d + 1] = c
IsDigit(c) == \E d \in 0..9 : DigitChar[d + 1] = c

\* reads a decimal number at b[i]: [ok, val, next]
RECURSIVE ReadInt(_, _, _, _)
ReadInt(b, i, acc, any) ==
    IF i <= Len(b) /\ IsDigit(b[i])
    THEN ReadInt(b, i + 1, acc * 10 + DigitValue(b[i]), TRUE)
    ELSE [ok |-> any, val |-> acc, next |-> i]

\* reads an escaped string body up to its closing quote: [ok, val, next]
RECURSIVE ReadString(_, _, _)
ReadString(b, i, acc) ==
    IF i > Len(b) THEN [ok |-> FALSE, val |-> acc, next |-> i]
    ELSE IF b[i] = "\"" THEN [ok |-> TRUE, val |-> acc, next |-> i]
    ELSE IF b[i] = "\\"
         THEN IF i + 1 > Len(b) THEN [ok |-> FALSE, val |-> acc, next |-> i]
              ELSE IF b[i + 1] \in {"\"", "\\"}
                   THEN ReadString(b, i + 2, Append(acc, b[i + 1]))
              ELSE IF HasPrefixAt(b, i + 1, <<"u","0","0","3","c">>)
                   THEN ReadString(b, i + 6, Append(acc, "<"))
              ELSE [ok |-> FALSE, val |-> acc, next |-> i]
    ELSE ReadString(b, i + 1, Append(acc, b[i]))

\* json.Unmarshal(b, &RESTErr{}) restricted to objects of exactly the two
\* keys in Marshal's order: [ok, StatusCode, Message]
Unmarshal(b) ==
    LET bad == [ok |-> FALSE, StatusCode |-> 0, Message |-> <<>>]
    IN  IF ~HasPrefixAt(b, 1, KeyStatusCode) THEN bad
        ELSE LET n == ReadInt(b, Len(KeyStatusCode) + 1, 0, FALSE)
             IN  IF ~n.ok \/ ~HasPrefixAt(b, n.next, KeyMessage) THEN bad
                 ELSE LET s == ReadString(b, n.next + Len(KeyMessage), <<>>)
                      IN  IF s.ok /\ HasPrefixAt(b, s.next, CloseObject)
                                  /\ s.next + 1 = Len(b)
                          THEN [ok |-> TRUE, StatusCode |-> n.val,
                                Message |-> s.val]
                          ELSE bad

(***************************************************************************)
(* Texts.                                                                  *)
(***************************************************************************)
RECURSIVE Str(_)
Str(s) == IF s = <<>> THEN "" ELSE Head(s) \o Str(Tail(s))

\* func (r RESTErr) Error() string
RESTErrError(r) ==
    "status code: '" \o ToString(r.StatusCode) \o "', message: '"
        \o Str(r.Message) \o "', json: '" \o Str(r.json) \o "'"

(***************************************************************************)
(* Go error values.                                                        *)
(***************************************************************************)
New(text)       == [kind |-> "leaf", text |-> text, sub |-> <<>>, re |-> ZeroRESTErr]
Wrap(text, e)   == [kind |-> "wrap", text |-> text, sub |-> <<e>>, re |-> ZeroRESTErr]
Join(a, b)      == [kind |-> "join", text |-> "", sub |-> <<a, b>>, re |-> ZeroRESTErr]
AsError(r)      == [kind |-> "rest", text |-> "", sub |-> <<>>, re |-> r]

\* err.Error()
RECURSIVE ErrorText(_)
ErrorText(e) ==
    CASE e.kind = "leaf" -> e.text
      [] e.kind = "wrap" -> e.text \o ": " \o ErrorText(e.sub[1])
      [] e.kind = "join" -> ErrorText(e.sub[1]) \o "\n" \o ErrorText(e.sub[2])
      [] e.kind = "rest" -> RESTErrError(e.re)

\* faulty variant: a comparison (err == target) in place of errors.Is
IsShallow(e, target) == e = target
\* errors.Is(e, target): target is e or is in e's tree
RECURSIVE Is(_, _)
Is(e, target) ==
    \/ e = target
    \/ \E i \in 1..Len(e.sub) : Is(e.sub[i], target)

\* faulty variant: a type assertion (err.(RESTErr)) in place of errors.As
AsTypeAssertion(e) ==
    IF e.kind = "rest" THEN [ok |-> TRUE, val |-> e.re]
    ELSE [ok |-> FALSE, val |-> ZeroRESTErr]
\* errors.As(e, &restErr): the first RESTErr of the tree, depth first
RECURSIVE As(_), AsList(_)
As(e) ==
    IF e.kind = "rest" THEN [ok |-> TRUE, val |-> e.re] ELSE AsList(e.sub)
AsList(s) ==
    IF s = <<>> THEN [ok |-> FALSE, val |-> ZeroRESTErr]
    ELSE LET r == As(Head(s)) IN IF r.ok THEN r ELSE AsList(Tail(s))

(***************************************************************************)
(* The inputs the model draws from.                                        *)
(***************************************************************************)
errFoo == New("foo err")
errBar == New("bar err")
errQux == New("qux error")
\* a sentinel that itself wraps another sentinel
errBaz == Wrap("baz err", errFoo)

\* the errors a table may register
Sentinels == {errFoo, errBar, errBaz}

\* descriptor templates: one whose message needs escaping, and one whose
\* status code lies outside [400, 599]
Templates ==
    { RESTErr(404, <<"n","\"","<","\\">>),
      RESTErr(399, <<"x">>) }

\* map[error]RESTErr values of at most MaxEntries entries
Tables ==
    UNION { [K -> Templates] : K \in { S \in SUBSET Sentinels : Cardinality(S) <= MaxEntries } }

\* RESTErr values handed to Handle directly (their json field is unset:
\* it is unexported)
DirectRESTErrs == { RESTErr(103, <<"m","s","g">>), RESTErr(418, <<"a","\"">>) }

JoinMembers == {errFoo, errBar} \cup { AsError(r) : r \in DirectRESTErrs }

Unwrapped ==
    {errFoo, errBar, errQux, errBaz}
        \cup { AsError(r) : r \in DirectRESTErrs }
        \cup { Join(p[1], p[2]) : p \in { q \in JoinMembers \X JoinMembers : q[1] # q[2] } }

RECURSIVE WrapUpTo(_, _)
WrapUpTo(S, n) ==
    IF n = 0 THEN S
    ELSE S \cup { Wrap("lookup failed", e) : e \in WrapUpTo(S, n - 1) }

ErrorValues == WrapUpTo(Unwrapped, MaxWrap)

\* validation functions given with WithValidationFn; "nil" is no option
ValidationFns == {"nil", "fail", "range"}

\* h.validationFn(e): "" stands for a nil error
Validate(fn, e) ==
    CASE fn = "fail"  -> "assert.AnError general error for testing"
      [] fn = "range" -> IF e.StatusCode < 400 \/ e.StatusCode >= 600
                         THEN "invalid status code" ELSE ""

(***************************************************************************)
(* The Writer (sink) and the logger as recorders of the calls made on      *)
(* them.                                                                   *)
(***************************************************************************)
HeaderSet(k, v)  == [op |-> "Header.Set", key |-> k, value |-> v, code |-> 0,
                     data |-> <<>>, ok |-> TRUE]
WriteHeader(c)   == [op |-> "WriteHeader", key |-> "", value |-> "", code |-> c,
                     data |-> <<>>, ok |-> TRUE]
Write(b, ok)     == [op |-> "Write", key |-> "", value |-> "", code |-> 0,
                     data |-> b, ok |-> ok]

\* the text of the error a failing Writer.Write returns
WriteErrText == "write failed"

LogRecord(level, msg, attrs) == [level |-> level, msg |-> msg, attrs |-> attrs]

(***************************************************************************)
(* func (h *Handler) writeInternalErr (handler.go 122-127), as the effect  *)
(* on the sink and the log; ok is whether w.Write succeeds.                *)
(***************************************************************************)
\* faulty variants: no WriteHeader; no record of a failed write; a second
\* attempt after a failed write
writeInternalErrNoHeader(hd, snk, lg, ok) ==
    [sink |-> Append(snk, Write(hd.internalErrJSON, ok)),
     log  |-> IF ok THEN lg
              ELSE Append(lg, LogRecord("ERROR",
                       "Failed to write internal JSON error.",
                       << <<"error", WriteErrText>> >>))]
writeInternalErrUnlogged(hd, snk, lg, ok) ==
    [sink |-> Append(Append(snk, WriteHeader(StatusInternalServerError)),
                     Write(hd.internalErrJSON, ok)),
     log  |-> lg]
writeInternalErrRetry(hd, snk, lg, ok) ==
    LET s2 == Append(Append(snk, WriteHeader(StatusInternalServerError)),
                     Write(hd.internalErrJSON, ok))
        l2 == Append(lg, LogRecord("ERROR",
                       "Failed to write internal JSON error.",
                       << <<"error", WriteErrText>> >>))
    IN  IF ok THEN [sink |-> s2, log |-> lg]
        ELSE [sink |-> Append(Append(s2, WriteHeader(StatusInternalServerError)),
                              Write(hd.internalErrJSON, TRUE)),
              log |-> l2]
writeInternalErr(hd, snk, lg, ok) ==
    LET s1 == Append(snk, WriteHeader(StatusInternalServerError))
        s2 == Append(s1, Write(hd.internalErrJSON, ok))
    IN  [sink |-> s2,
         log  |-> IF ok THEN lg
                  ELSE Append(lg, LogRecord("ERROR",
                           "Failed to write internal JSON error.",
                           << <<"error", WriteErrText>> >>))]

(***************************************************************************)
(* func (h *Handler) write (handler.go 129-152); ok1 is whether the write  *)
(* of the payload succeeds, ok2 whether the write of the generic JSON that *)
(* follows a failure does.  json.Marshal of a RESTErr cannot fail, so the  *)
(* branch of lines 141-145 is never taken.                                 *)
(***************************************************************************)
\* faulty variant: a failed write is logged and nothing more
writeNoFallback(hd, snk, lg, e, ok1, ok2) ==
    LET payload == IF e.json = Nil THEN Marshal(e) ELSE e.json
    IN  [sink |-> Append(Append(snk, WriteHeader(e.StatusCode)), Write(payload, ok1)),
         log  |-> IF ok1 THEN lg
                  ELSE Append(lg, LogRecord("ERROR", "Failed to write JSON error.",
                            << <<"source-error", RESTErrError(e)>>,
                               <<"error", WriteErrText>> >>))]
\* faulty variant: the cached JSON is written also when there is none
writeCacheOnly(hd, snk, lg, e, ok1, ok2) ==
    LET s2 == Append(Append(snk, WriteHeader(e.StatusCode)), Write(e.json, ok1))
    IN  IF ok1 THEN [sink |-> s2, log |-> lg]
        ELSE writeInternalErr(hd, s2,
                 Append(lg, LogRecord("ERROR", "Failed to write JSON error.",
                            << <<"source-error", RESTErrError(e)>>,
                               <<"error", WriteErrText>> >>)),
                 ok2)
write(hd, snk, lg, e, ok1, ok2) ==
    LET s1 == Append(snk, WriteHeader(e.StatusCode))
        payload == IF e.json = Nil THEN Marshal(e) ELSE e.json
        s2 == Append(s1, Write(payload, ok1))
    IN  IF ok1 THEN [sink |-> s2, log |-> lg]
        ELSE writeInternalErr(hd, s2,
                 Append(lg, LogRecord("ERROR", "Failed to write JSON error.",
                            << <<"source-error", RESTErrError(e)>>,
                               <<"error", WriteErrText>> >>)),
                 ok2)

(***************************************************************************)
(* State.                                                                  *)
(*   errMapIn, optValidation  the arguments of NewHandler                  *)
(*   h, todo                  NewHandler's local Handler and the entries   *)
(*                            of errMap its loop has not visited yet       *)
(*   handler, newErr          what NewHandler returned                     *)
(*   pc                       where the program is                         *)
(*   err, sink, log           the current Handle call: its error, the      *)
(*                            calls made on its Writer and on the logger   *)
(*   rtodo, found             the Range loop: keys not visited yet, and    *)
(*                            the found flag                               *)
(*   prev                     the caller's record of the previous call,    *)
(*                            kept when it repeats a call                  *)
(*   other                    a Handle call of a second goroutine on the   *)
(*                            same Handler: its position, error, Writer,   *)
(*                            log records and Range loop                   *)
(***************************************************************************)
NoHandler == [internalErrJSON |-> Nil, errorMap |-> <<>>, validationFn |-> "nil",
              set |-> FALSE]
NoError   == New("")
NoNewErr  == [set |-> FALSE, text |-> "", cause |-> ""]
NoPrev    == [set |-> FALSE, err |-> NoError, sink |-> <<>>]
NoCall    == [pc |-> "idle", err |-> NoError, sink |-> <<>>, log |-> <<>>,
              rtodo |-> {}, found |-> FALSE]

Init ==
    /\ errMapIn \in Tables
    /\ optValidation \in ValidationFns
    /\ h = NoHandler
    /\ todo = {}
    /\ handler = NoHandler
    /\ newErr = NoNewErr
    /\ pc = "start"
    /\ err = NoError
    /\ sink = <<>>
    /\ log = <<>>
    /\ rtodo = {}
    /\ found = FALSE
    /\ prev = NoPrev
    /\ other = NoCall

callVars == <<err, sink, log, rtodo, found, prev>>
newVars  == <<errMapIn, optValidation, h, todo, handler, newErr>>

(***************************************************************************)
(* func NewHandler (handler.go 37-69).                                     *)
(***************************************************************************)
\* lines 38-51: the generic JSON is marshalled, the options are applied
NewHandlerBegin ==
    /\ pc = "start"
    /\ h' = [internalErrJSON |-> Marshal(internalErr), errorMap |-> <<>>,
             validationFn |-> optValidation, set |-> TRUE]
    /\ todo' = DOMAIN errMapIn
    /\ pc' = "new"
    /\ UNCHANGED <<errMapIn, optValidation, handler, newErr>>
    /\ UNCHANGED callVars
    /\ UNCHANGED other

\* faulty variant: the validation function is never called
ValidationResultIgnored(hd, e) == ""
\* lines 54-58: the validation of one entry; "" is a nil error
ValidationResult(hd, e) ==
    IF hd.validationFn # "nil" THEN Validate(hd.validationFn, e) ELSE ""

\* lines 60-66: the entry as stored, with its JSON cached
StoredEntry(e) == [e EXCEPT !.json = Marshal(e)]

\* lines 53-67: one iteration of the loop over errMap, in map order
NewHandlerEntry ==
    /\ pc = "new"
    /\ \E k \in todo :
         LET e    == errMapIn[k]
             verr == ValidationResult(h, e)
         IN  IF verr # ""
             THEN /\ handler' = NoHandler
                  /\ newErr' = [set |-> TRUE,
                                text |-> "validation failed for REST error '"
                                           \o RESTErrError(e) \o "': " \o verr,
                                cause |-> verr]
                  /\ pc' = "failed"
                  /\ UNCHANGED <<h, todo>>
             ELSE /\ h' = [h EXCEPT !.errorMap = @ @@ (k :> StoredEntry(e))]
                  /\ todo' = todo \ {k}
                  /\ UNCHANGED <<handler, newErr, pc>>
    /\ UNCHANGED <<errMapIn, optValidation>>
    /\ UNCHANGED callVars
    /\ UNCHANGED other

\* line 68
NewHandlerReturn ==
    /\ pc = "new"
    /\ todo = {}
    /\ handler' = h
    /\ pc' = "ready"
    /\ UNCHANGED <<errMapIn, optValidation, h, todo, newErr>>
    /\ UNCHANGED callVars
    /\ UNCHANGED other

(***************************************************************************)
(* func (h *Handler) Handle (handler.go 81-120).                           *)
(***************************************************************************)
ContentType == HeaderSet("Content-Type", "application/json")

\* faulty variant: the Content-Type header is not set
HandlePrologNoHeader == <<>>
\* line 82: the calls on the Writer before the error is looked at
HandleProlog == <<ContentType>>

\* lines 86-87: the direct path
HandleDirect(hd, snk, e, re, ok1, ok2) ==
    write(hd, snk,
          <<LogRecord("INFO", "Handling REST error.",
                      << <<"error", ErrorText(e)>> >>)>>,
          re, ok1, ok2)

\* lines 81-91: the header, errors.As and, for a RESTErr, its write
HandleBegin ==
    /\ pc = "ready"
    /\ \E e \in ErrorValues, ok1 \in BOOLEAN, ok2 \in BOOLEAN :
         /\ prev.set => e = prev.err
         /\ err' = e
         /\ LET a == As(e)
            IN  IF a.ok
                THEN LET r == HandleDirect(handler, HandleProlog, e, a.val, ok1, ok2)
                     IN  /\ sink' = r.sink
                         /\ log' = r.log
                         /\ pc' = "done"
                         /\ rtodo' = {}
                ELSE /\ sink' = HandleProlog
                     /\ log' = <<>>
                     /\ pc' = "range"
                     /\ rtodo' = DOMAIN handler.errorMap
    /\ found' = FALSE
    /\ UNCHANGED prev
    /\ UNCHANGED newVars
    /\ UNCHANGED other

\* lines 109 and 111: what the Range callback returns, that is whether Range
\* goes on to the next key
CallbackReturn(matched) == TRUE

\* lines 106-108: the mapped path
HandleMapped(hd, snk, lg, e, re, ok1, ok2) ==
    write(hd, snk,
          Append(lg, LogRecord("INFO", "Handling mapped error.",
                               << <<"error", ErrorText(e)>>,
                                  <<"rest-error", RESTErrError(re)>> >>)),
          re, ok1, ok2)

\* lines 92-112: one call of the Range callback; sync.Map.Range visits the
\* keys in no specified order.  The type assertions of lines 93 and 100
\* cannot fail: NewHandler alone stores into errorMap.
RangeCallback ==
    /\ pc = "range"
    /\ \E k \in rtodo, ok1 \in BOOLEAN, ok2 \in BOOLEAN :
         LET matched == Is(err, k)
         IN  /\ IF matched
                THEN LET r == HandleMapped(handler, sink, log, err,
                                           handler.errorMap[k], ok1, ok2)
                     IN  /\ found' = TRUE
                         /\ sink' = r.sink
                         /\ log' = r.log
                ELSE UNCHANGED <<found, sink, log>>
             /\ rtodo' = IF CallbackReturn(matched) THEN rtodo \ {k} ELSE {}
    /\ UNCHANGED <<pc, err, prev>>
    /\ UNCHANGED newVars
    /\ UNCHANGED other

\* faulty variants of the fallback path: the record at INFO level; the
\* record alone, without the write
HandleUnmappedInfo(hd, snk, lg, e, ok) ==
    writeInternalErr(hd, snk,
        Append(lg, LogRecord("INFO", "Handling unmapped error.",
                             << <<"error", ErrorText(e)>> >>)),
        ok)
HandleUnmappedLogOnly(hd, snk, lg, e, ok) ==
    [sink |-> snk,
     log  |-> Append(lg, LogRecord("ERROR", "Handling unmapped error.",
                                   << <<"error", ErrorText(e)>> >>))]
\* lines 118-119: the fallback path
HandleUnmapped(hd, snk, lg, e, ok) ==
    writeInternalErr(hd, snk,
        Append(lg, LogRecord("ERROR", "Handling unmapped error.",
                             << <<"error", ErrorText(e)>> >>)),
        ok)

\* lines 114-120: after Range
HandleAfterRange ==
    /\ pc = "range"
    /\ rtodo = {}
    /\ IF found
       THEN UNCHANGED <<sink, log>>
       ELSE \E ok \in BOOLEAN :
              LET r == HandleUnmapped(handler, sink, log, err, ok)
              IN  /\ sink' = r.sink
                  /\ log' = r.log
    /\ pc' = "done"
    /\ UNCHANGED <<err, rtodo, found, prev>>
    /\ UNCHANGED newVars
    /\ UNCHANGED other

\* Handle returns.  The caller either keeps the call's error and what its
\* Writer received, to repeat the call with the same error on a new Writer,
\* or moves on to an unrelated call.
HandleReturn ==
    /\ pc = "done"
    /\ pc' = "ready"
    /\ \/ prev' = NoPrev
       \/ /\ ~prev.set
          /\ prev' = [set |-> TRUE, err |-> err, sink |-> sink]
    /\ err' = NoError
    /\ sink' = <<>>
    /\ log' = <<>>
    /\ UNCHANGED <<rtodo, found>>
    /\ UNCHANGED newVars
    /\ UNCHANGED other

Next ==
    \/ NewHandlerBegin
    \/ NewHandlerEntry
    \/ NewHandlerReturn
    \/ HandleBegin
    \/ RangeCallback
    \/ HandleAfterRange
    \/ HandleReturn

Spec == Init /\ [][Next]_vars

(***************************************************************************)
(* Vocabulary of the properties, stated from the arguments of the calls    *)
(* and from what the Writer and the logger received.                       *)
(***************************************************************************)
\* target is e itself or is wrapped by e at some depth
RECURSIVE Reaches(_, _)
Reaches(e, target) ==
    IF e = target THEN TRUE
    ELSE IF e.sub = <<>> THEN FALSE
    ELSE \E i \in DOMAIN e.sub : Reaches(e.sub[i], target)

\* the errors of e's tree that wrap nothing, from left to right
RECURSIVE LeavesOf(_)
LeavesOf(e) ==
    CASE e.kind = "wrap" -> LeavesOf(e.sub[1])
      [] e.kind = "join" -> LeavesOf(e.sub[1]) \o LeavesOf(e.sub[2])
      [] OTHER -> <<e>>

IsRESTErrValue(e) == e.kind = "rest"
RESTErrsOf(e) == SelectSeq(LeavesOf(e), IsRESTErrValue)
CarriesRESTErr(e) == RESTErrsOf(e) # <<>>

\* the sentinels of the table given to NewHandler that e is or wraps
Matching(e) == { s \in DOMAIN errMapIn : Reaches(e, s) }

IsWriteHeader(c) == c.op = "WriteHeader"
IsWrite(c)       == c.op = "Write"
WriteHeaders(s)  == SelectSeq(s, IsWriteHeader)
Writes(s)        == SelectSeq(s, IsWrite)

\* a body is the JSON of exactly the two fields of t
IsJSONOf(b, t) ==
    Unmarshal(b) = [ok |-> TRUE, StatusCode |-> t.StatusCode, Message |-> t.Message]

Built       == pc \notin {"start", "new"}
CallDone    == pc = "done"
InCall      == pc \in {"range", "done"}

(***************************************************************************)
(* C1.  For a sentinel s registered with template t and an error that is s *)
(* or wraps s at any depth, carries no RESTErr and matches no other        *)
(* registered sentinel, Handle calls WriteHeader(t.StatusCode) and writes  *)
(* a body that decodes to exactly {t.StatusCode, t.Message}; when that     *)
(* write succeeds these are the only calls after the Content-Type header.  *)
(***************************************************************************)
C1_MappedResponse ==
    CallDone =>
      \A s \in DOMAIN errMapIn :
        (Matching(err) = {s} /\ ~CarriesRESTErr(err)) =>
          LET t == errMapIn[s]
          IN  /\ Len(sink) >= 3
              /\ sink[2] = WriteHeader(t.StatusCode)
              /\ IsWrite(sink[3])
              /\ IsJSONOf(sink[3].data, t)
              /\ sink[3].ok => Len(sink) = 3

\* the sentinel lies two layers deep and its message needs escaping
C1_Witness ==
    /\ CallDone
    /\ err = Wrap("lookup failed", errBaz)
    /\ Matching(err) = {errFoo}
    /\ errMapIn[errFoo].StatusCode = 404
    /\ Len(sink) = 3
    /\ sink[2].code = 404
    /\ IsJSONOf(sink[3].data, errMapIn[errFoo])

(***************************************************************************)
(* C2.  For an error that carries no RESTErr and neither is nor wraps a    *)
(* registered sentinel, Handle calls WriteHeader(500) once and writes once *)
(* a body that decodes to {500, "something went wrong"}; a second call     *)
(* with the same error writes the same bytes as the first.                 *)
(***************************************************************************)
BodyOf(s) == [i \in DOMAIN Writes(s) |-> Writes(s)[i].data]

C2_UnmappedResponse ==
    (CallDone /\ ~CarriesRESTErr(err) /\ Matching(err) = {}) =>
        /\ Len(sink) = 3
        /\ sink[2] = WriteHeader(500)
        /\ IsWrite(sink[3])
        /\ IsJSONOf(sink[3].data, internalErr)
        /\ (prev.set /\ prev.err = err) => BodyOf(prev.sink) = BodyOf(sink)

\* the second of two calls with the same unmapped error, under a registry
\* that holds other sentinels
C2_Witness ==
    /\ CallDone
    /\ prev.set
    /\ prev.err = err
    /\ err = Wrap("lookup failed", errQux)
    /\ DOMAIN errMapIn = {errBar, errBaz}
    /\ sink[2].code = 500
    /\ BodyOf(sink) = BodyOf(prev.sink)
    /\ BodyOf(sink) # <<>>

(***************************************************************************)
(* C3.  An error that is a RESTErr or has one in its tree is answered with *)
(* that RESTErr's status code and message (the leftmost one of the tree),  *)
(* and the registry is not ranged over, also when the error wraps a        *)
(* registered sentinel.                                                    *)
(***************************************************************************)
C3_DirectPrecedence ==
    (InCall /\ CarriesRESTErr(err)) =>
        LET r == Head(RESTErrsOf(err)).re
        IN  /\ CallDone
            /\ rtodo = {}
            /\ ~found
            /\ Len(sink) >= 3
            /\ sink[2] = WriteHeader(r.StatusCode)
            /\ IsWrite(sink[3])
            /\ IsJSONOf(sink[3].data, r)
            /\ sink[3].ok => Len(sink) = 3
            /\ log[1].msg = "Handling REST error."

\* the RESTErr sits under a context layer, behind a registered sentinel
C3_Witness ==
    /\ CallDone
    /\ err = Wrap("lookup failed", Join(errFoo, AsError(RESTErr(418, <<"a","\"">>))))
    /\ errFoo \in DOMAIN handler.errorMap
    /\ handler.errorMap[errFoo].StatusCode = 404
    /\ sink[2].code = 418
    /\ Len(sink) = 3

(***************************************************************************)
(* C4.  With a validation function, NewHandler returns a Handler exactly   *)
(* when the function accepts every entry of the table; otherwise it        *)
(* returns nil and an error that wraps the validator's error.  The Handler *)
(* under construction is never returned partially filled.                  *)
(***************************************************************************)
AllAccepted ==
    \A k \in DOMAIN errMapIn : Validate(optValidation, errMapIn[k]) = ""

C4_ValidationAtomic ==
    /\ ~Built => ~handler.set
    /\ (Built /\ optValidation # "nil") =>
          /\ handler.set <=> AllAccepted
          /\ handler.set <=> pc # "failed"
          /\ handler.set => DOMAIN handler.errorMap = DOMAIN errMapIn
          /\ ~handler.set =>
                /\ handler = NoHandler
                /\ newErr.set
                /\ \E k \in DOMAIN errMapIn :
                      /\ Validate(optValidation, errMapIn[k]) # ""
                      /\ newErr.cause = Validate(optValidation, errMapIn[k])

\* the status-code validator rejects the second entry after the first was
\* stored in the Handler under construction
C4_Witness ==
    /\ pc = "failed"
    /\ optValidation = "range"
    /\ DOMAIN h.errorMap # {}
    /\ ~handler.set
    /\ newErr.cause = "invalid status code"

(***************************************************************************)
(* Write attempts and log records of a call.                               *)
(***************************************************************************)
\* the sink received the header, then WriteHeader and Write in turns
PairedAttempts(s) ==
    /\ Len(s) % 2 = 1
    /\ s[1] = ContentType
    /\ \A i \in 2..Len(s) :
         IF i % 2 = 0 THEN IsWriteHeader(s[i]) ELSE IsWrite(s[i])

Attempts(s) == Len(WriteHeaders(s))

\* how many descriptors a call with error e resolves to: the direct RESTErr,
\* the entry of every matching sentinel, or the generic one
Resolved(e) ==
    IF CarriesRESTErr(e) \/ Matching(e) = {} THEN 1
    ELSE Cardinality(Matching(e))

\* the Write at s[i] is a write of the generic JSON (no descriptor of the
\* model's inputs has the generic status code and message)
IsGenericWrite(s, i) ==
    /\ IsWrite(s[i])
    /\ i > 1
    /\ s[i - 1] = WriteHeader(500)
    /\ IsJSONOf(s[i].data, internalErr)

FailedWrites(s) == { i \in DOMAIN s : IsWrite(s[i]) /\ ~s[i].ok }

\* failed writes of the body of a descriptor, in a sink whose attempts from
\* s[i] on are attempts for descriptors, each followed by its fallback
\* attempt when its write failed
RECURSIVE FailedDescriptorFrom(_, _)
FailedDescriptorFrom(s, i) ==
    IF i + 1 > Len(s) THEN {}
    ELSE IF s[i + 1].ok THEN FailedDescriptorFrom(s, i + 2)
    ELSE {i + 1} \cup FailedDescriptorFrom(s, i + 4)

\* failed writes of the body of a descriptor the error resolved to
FailedDescriptorWrites(s) ==
    IF ~CarriesRESTErr(err) /\ Matching(err) = {} THEN {}
    ELSE FailedDescriptorFrom(s, 2)

\* failed writes of the generic JSON
FailedGenericWrites(s) == FailedWrites(s) \ FailedDescriptorWrites(s)

HasMsg(msg) == LET Test(r) == r.msg = msg IN SelectSeq(log, Test)
PathMsgs == {"Handling REST error.", "Handling mapped error.",
             "Handling unmapped error."}
IsPathRecord(r) == r.msg \in PathMsgs
PathRecords == SelectSeq(log, IsPathRecord)

C7_ContentTypeFirst ==
    /\ InCall =>
          /\ Len(sink) >= 1
          /\ sink[1] = HeaderSet("Content-Type", "application/json")
          /\ \A i \in DOMAIN sink :
                (IsWriteHeader(sink[i]) \/ IsWrite(sink[i])) => i > 1
    /\ CallDone => Len(sink) >= 3

\* the mapped path, two sentinels matching
C7_Witness ==
    /\ CallDone
    /\ Cardinality(Matching(err)) = 2
    /\ ~CarriesRESTErr(err)
    /\ sink[1].key = "Content-Type"
    /\ sink[1].value = "application/json"
    /\ IsWriteHeader(sink[2])

C9_ExactlyOneRecord ==
    CallDone => Len(log) = 1

(***************************************************************************)
(* C9 amended.  Every Handle call emits one path record for every          *)
(* descriptor the error resolves to, and one ERROR record for every failed *)
(* Write on the sink, and no other record.                                 *)
(***************************************************************************)
C9_RecordsPerCall ==
    CallDone =>
        /\ Len(PathRecords) = Resolved(err)
        /\ Len(log) = Resolved(err) + Cardinality(FailedWrites(sink))
        /\ \A i \in DOMAIN log :
              \/ IsPathRecord(log[i])
              \/ /\ log[i].level = "ERROR"
                 /\ log[i].msg \in {"Failed to write JSON error.",
                                    "Failed to write internal JSON error."}

\* one match, both writes fail: three records
C9_Witness ==
    /\ CallDone
    /\ Resolved(err) = 1
    /\ Cardinality(FailedWrites(sink)) = 2
    /\ Len(log) = 3

(***************************************************************************)
(* C10.  A Handle call that has begun reaches its return, whatever the     *)
(* error and whichever writes fail: while it runs one of its steps is      *)
(* enabled, every step inside Range leaves one key fewer to visit, and the *)
(* call leaves Range only to return.  A failed write of the generic JSON   *)
(* is logged and nothing else: it is not followed by another generic       *)
(* attempt.                                                                *)
(***************************************************************************)
GenericFailureSwallowed ==
    /\ \A i \in FailedGenericWrites(sink) :
          \/ i = Len(sink)
          \/ /\ IsWriteHeader(sink[i + 1])
             /\ sink[i + 1].code # 500
    /\ Len(HasMsg("Failed to write internal JSON error.")) =
          Cardinality(FailedGenericWrites(sink))

\* C10: a call that has begun reaches its return, and a failed generic write
\* is swallowed
C10_RunsToCompletion ==
    /\ [](GenericFailureSwallowed)
    /\ []((pc = "range") => ENABLED (RangeCallback \/ HandleAfterRange))
    /\ []((pc = "done") => ENABLED HandleReturn)
    /\ [][(pc = "range" /\ pc' = "range")
            => Cardinality(rtodo') < Cardinality(rtodo)]_vars
    /\ [][(pc = "range") => (pc' \in {"range", "done"})]_vars

\* the fallback path with a failing generic write
C10_Witness ==
    /\ CallDone
    /\ Matching(err) = {}
    /\ ~CarriesRESTErr(err)
    /\ Len(sink) = 3
    /\ ~sink[3].ok
    /\ Len(log) = 2

(***************************************************************************)
(* Two goroutines calling Handle on one shared Handler.  The second call   *)
(* runs the code of the first (handler.go 81-120) on its own error and     *)
(* Writer; its steps interleave with those of the first call at every      *)
(* point between construction's return and its own.  What the two calls    *)
(* share is the Handler: errorMap is a sync.Map that Handle only ranges    *)
(* over, internalErrJSON a slice it only reads.                            *)
(***************************************************************************)
\* the errors of the two calls: a registered sentinel, a wrapped one, an
\* unregistered one, an error that matches two sentinels, a RESTErr
ConcErrors ==
    {errBar, Wrap("lookup failed", errFoo), errQux, Join(errFoo, errBar),
     AsError(RESTErr(418, <<"a", "\"">>))}

\* the tables under which the two calls run
ConcTables == { t \in Tables : DOMAIN t = {errFoo, errBar} /\ t[errFoo] # t[errBar] }

ConcInit ==
    /\ Init
    /\ errMapIn \in ConcTables
    /\ optValidation = "nil"

\* faulty variant: the found flag is kept in the Handler, where the calls
\* share it
SharedFound == found
\* line 91: found is a local variable of each call
OtherFound == other.found

\* lines 81-91, second goroutine
OtherBegin ==
    /\ pc \in {"ready", "range", "done"}
    /\ other.pc = "idle"
    /\ \E e \in ConcErrors, ok1 \in BOOLEAN, ok2 \in BOOLEAN :
         LET a == As(e)
         IN  IF a.ok
             THEN LET r == HandleDirect(handler, HandleProlog, e, a.val, ok1, ok2)
                  IN  other' = [pc |-> "done", err |-> e, sink |-> r.sink,
                                log |-> r.log, rtodo |-> {}, found |-> FALSE]
             ELSE other' = [pc |-> "range", err |-> e, sink |-> HandleProlog,
                            log |-> <<>>, rtodo |-> DOMAIN handler.errorMap,
                            found |-> FALSE]
    /\ UNCHANGED <<pc, callVars, newVars>>

\* lines 92-112, second goroutine
OtherRangeCallback ==
    /\ other.pc = "range"
    /\ \E k \in other.rtodo, ok1 \in BOOLEAN, ok2 \in BOOLEAN :
         LET matched == Is(other.err, k)
             rest    == IF CallbackReturn(matched) THEN other.rtodo \ {k} ELSE {}
         IN  IF matched
             THEN LET r == HandleMapped(handler, other.sink, other.log, other.err,
                                        handler.errorMap[k], ok1, ok2)
                  IN  other' = [other EXCEPT !.found = TRUE, !.sink = r.sink,
                                             !.log = r.log, !.rtodo = rest]
             ELSE other' = [other EXCEPT !.rtodo = rest]
    /\ UNCHANGED <<pc, callVars, newVars>>

\* lines 114-120, second goroutine
OtherAfterRange ==
    /\ other.pc = "range"
    /\ other.rtodo = {}
    /\ IF OtherFound
       THEN other' = [other EXCEPT !.pc = "done"]
       ELSE \E ok \in BOOLEAN :
              LET r == HandleUnmapped(handler, other.sink, other.log, other.err, ok)
              IN  other' = [other EXCEPT !.pc = "done", !.sink = r.sink,
                                         !.log = r.log]
    /\ UNCHANGED <<pc, callVars, newVars>>

\* the second goroutine's call returns
OtherReturn ==
    /\ other.pc = "done"
    /\ other' = NoCall
    /\ UNCHANGED <<pc, callVars, newVars>>

ConcNext ==
    \/ NewHandlerBegin
    \/ NewHandlerEntry
    \/ NewHandlerReturn
    \/ HandleBegin /\ err' \in ConcErrors
    \/ RangeCallback
    \/ HandleAfterRange
    \/ HandleReturn /\ prev' = NoPrev
    \/ OtherBegin
    \/ OtherRangeCallback
    \/ OtherAfterRange
    \/ OtherReturn

ConcSpec == ConcInit /\ [][ConcNext]_vars

\* the calls from index i on are the attempt for template t: WriteHeader with
\* its code and a Write of its JSON, followed, when that Write failed, by
\* WriteHeader(500) and a Write of the generic JSON; the number of calls of
\* the attempt, 0 when the calls are no such attempt
AttemptLen(s, i, t) ==
    IF /\ i + 1 <= Len(s)
       /\ s[i] = WriteHeader(t.StatusCode)
       /\ IsWrite(s[i + 1])
       /\ IsJSONOf(s[i + 1].data, t)
    THEN IF s[i + 1].ok THEN 2
         ELSE IF /\ i + 3 <= Len(s)
                 /\ s[i + 2] = WriteHeader(500)
                 /\ IsWrite(s[i + 3])
                 /\ IsJSONOf(s[i + 3].data, internalErr)
              THEN 4 ELSE 0
    ELSE 0

\* the calls from index i on are one attempt for each sentinel of S, in some
\* order, and nothing else
RECURSIVE AttemptsFor(_, _, _)
AttemptsFor(s, i, S) ==
    IF S = {} THEN i = Len(s) + 1
    ELSE \E k \in S :
           LET n == AttemptLen(s, i, errMapIn[k])
           IN  n > 0 /\ AttemptsFor(s, i + n, S \ {k})

\* s is a response that the table given to NewHandler and the error e alone
\* account for
OwnResponse(e, s) ==
    /\ Len(s) >= 1
    /\ s[1] = ContentType
    /\ IF CarriesRESTErr(e)
       THEN LET n == AttemptLen(s, 2, Head(RESTErrsOf(e)).re)
            IN  n > 0 /\ Len(s) = 1 + n
       ELSE IF Matching(e) = {}
       THEN /\ Len(s) = 3
            /\ s[2] = WriteHeader(500)
            /\ IsWrite(s[3])
            /\ IsJSONOf(s[3].data, internalErr)
       ELSE AttemptsFor(s, 2, Matching(e))

(***************************************************************************)
(* C11.  Once NewHandler has returned, no step of any Handle call changes  *)
(* the Handler: it stays the value construction built.  Under every        *)
(* interleaving of two calls on it, the response each call has made when   *)
(* it returns is one that its own error and the table account for,         *)
(* whatever the other call's error is and however far it has got.          *)
(***************************************************************************)
C11_SharedHandlerReadOnly ==
    /\ [][handler.set => handler' = handler]_vars
    /\ [](handler.set => handler = h)
    /\ []((pc = "done") => OwnResponse(err, sink))
    /\ []((other.pc = "done") => OwnResponse(other.err, other.sink))

\* the second call has run to its return, on another error and with another
\* status code, while the first is in the middle of its Range
C11_Witness ==
    /\ pc = "range"
    /\ rtodo # {}
    /\ found
    /\ other.pc = "done"
    /\ other.err = errQux
    /\ err # other.err
    /\ Len(sink) >= 3
    /\ other.sink[2].code = 500
    /\ sink[2].code # 500
    /\ handler = h

(***************************************************************************)
(* C12.  For an error that carries no RESTErr and matches more than one    *)
(* registered sentinel, the finished call has made the attempt of exactly  *)
(* one of the matching sentinels, and nothing else after the Content-Type  *)
(* header, with one "Handling mapped error." record.                       *)
(***************************************************************************)
C12_FirstMatchWins ==
    (CallDone /\ ~CarriesRESTErr(err) /\ Cardinality(Matching(err)) > 1) =>
        /\ \E s \in Matching(err) :
              LET n == AttemptLen(sink, 2, errMapIn[s])
              IN  n > 0 /\ Len(sink) = 1 + n
        /\ Len(HasMsg("Handling mapped error.")) = 1

(***************************************************************************)
(* C13.  The Handler a successful NewHandler returns has one entry for     *)
(* every sentinel of the table it was given and for nothing else; an entry *)
(* carries the status code and the message of its template, and a cached   *)
(* JSON that decodes to exactly those two fields; the cached generic JSON  *)
(* is the text {"status-code":500,"message":"something went wrong"}.       *)
(***************************************************************************)
C13_RegistryAfterConstruction ==
    handler.set =>
        /\ DOMAIN handler.errorMap = DOMAIN errMapIn
        /\ \A k \in DOMAIN errMapIn :
              LET e == handler.errorMap[k]
                  t == errMapIn[k]
              IN  /\ e.StatusCode = t.StatusCode
                  /\ e.Message = t.Message
                  /\ e.json # Nil
                  /\ IsJSONOf(e.json, t)
        /\ IsJSONOf(handler.internalErrJSON, internalErr)
        /\ Str(handler.internalErrJSON) =
              "{\"status-code\":500,\"message\":\"something went wrong\"}"

\* a validated table of two entries, one with a message that needs escaping
C13_Witness ==
    /\ pc = "ready"
    /\ handler.set
    /\ optValidation = "range"
    /\ DOMAIN errMapIn = {errBar, errBaz}
    /\ DOMAIN handler.errorMap = {errBar, errBaz}
    /\ handler.errorMap[errBaz].StatusCode = 404
    /\ Str(handler.errorMap[errBaz].json) =
          "{\"status-code\":404,\"message\":\"n\\\"\\u003c\\\\\"}"

(***************************************************************************)
(* write called on its own (README.md, TestWrite): on a Handler built from *)
(* an empty table, with a descriptor that either carries its JSON, cached  *)
(* as NewHandler caches it, or carries none.  The caller keeps what a call *)
(* wrote to repeat it with the same status code and message.               *)
(***************************************************************************)
WriteTemplates ==
    { RESTErr(c, m) : c \in {123, 456, 404, 500, 0},
                      m \in {<<"f", "o", "o">>, <<"a", "\"">>,
                             <<"<", "\\">>, <<>>} }

WriteInit ==
    /\ Init
    /\ DOMAIN errMapIn = {}
    /\ optValidation = "nil"

\* h.write(ctx, w, e) (handler.go 129-152)
WriteCall ==
    /\ pc = "ready"
    /\ \E t \in WriteTemplates, cached \in BOOLEAN,
          ok1 \in BOOLEAN, ok2 \in BOOLEAN :
         LET e == IF cached THEN StoredEntry(t) ELSE t
             r == write(handler, <<>>, <<>>, e, ok1, ok2)
         IN  /\ prev.set => t = [prev.err.re EXCEPT !.json = Nil]
             /\ err' = AsError(e)
             /\ sink' = r.sink
             /\ log' = r.log
    /\ pc' = "written"
    /\ UNCHANGED <<rtodo, found, prev, other>>
    /\ UNCHANGED newVars

\* write returns
WriteReturn ==
    /\ pc = "written"
    /\ pc' = "ready"
    /\ \/ prev' = NoPrev
       \/ /\ ~prev.set
          /\ prev' = [set |-> TRUE, err |-> err, sink |-> sink]
    /\ err' = NoError
    /\ sink' = <<>>
    /\ log' = <<>>
    /\ UNCHANGED <<rtodo, found, other>>
    /\ UNCHANGED newVars

WriteNext ==
    \/ NewHandlerBegin
    \/ NewHandlerReturn
    \/ WriteCall
    \/ WriteReturn

WriteSpec == WriteInit /\ [][WriteNext]_vars

(***************************************************************************)
(* C14.  write(e) calls WriteHeader(e.StatusCode) and then Write, with the *)
(* cached JSON of e when e has one and otherwise with bytes that decode to *)
(* the status code and message of e; a call that follows one for the same  *)
(* status code and message writes the same bytes, whichever of the two had *)
(* the JSON cached.                                                        *)
(***************************************************************************)
C14_WriteRoutes ==
    (pc = "written") =>
        LET e == err.re
        IN  /\ Len(sink) >= 2
            /\ sink[1] = WriteHeader(e.StatusCode)
            /\ IsWrite(sink[2])
            /\ (e.json # Nil) => sink[2].data = e.json
            /\ IsJSONOf(sink[2].data, e)
            /\ prev.set => sink[2].data = prev.sink[2].data

\* a descriptor without JSON, written after the same status code and message
\* with the JSON cached; the message needs escaping
C14_Witness ==
    /\ pc = "written"
    /\ prev.set
    /\ prev.err.re.json # Nil
    /\ err.re.json = Nil
    /\ err.re.StatusCode = 456
    /\ err.re.Message = <<"a", "\"">>
    /\ prev.err.re.StatusCode = 456
    /\ prev.err.re.Message = <<"a", "\"">>
    /\ sink[1].code = 456
    /\ Str(sink[2].data) = "{\"status-code\":456,\"message\":\"a\\\"\"}"
    /\ sink[2].data = prev.sink[2].data

(***************************************************************************)
(* C15.  At every point of a Handle call, every Write the sink has         *)
(* received comes directly after a WriteHeader; the first WriteHeader      *)
(* carries the status code of a descriptor the error resolves to (its      *)
(* leftmost RESTErr, the entry of a matching sentinel, or 500 when there   *)
(* is neither); every later WriteHeader carries 500.                       *)
(***************************************************************************)
\* the status codes of the descriptors a call with error e resolves to
ResolvedCodes(e) ==
    IF CarriesRESTErr(e) THEN {Head(RESTErrsOf(e)).re.StatusCode}
    ELSE IF Matching(e) = {} THEN {500}
    ELSE { errMapIn[k].StatusCode : k \in Matching(e) }

C15_HeaderBeforeBody ==
    InCall =>
        LET hs == WriteHeaders(sink)
        IN  /\ \A i \in DOMAIN sink :
                  IsWrite(sink[i]) => (i > 1 /\ IsWriteHeader(sink[i - 1]))
            /\ hs # <<>> => hs[1].code \in ResolvedCodes(err)
            /\ \A j \in 2..Len(hs) : hs[j].code = 500
====
